---- MODULE Spec2Model ----
(***************************************************************************)
(* Model of the Nautobot node-label controller (main.go).                  *)
(*                                                                         *)
(* NodeReconciler.Reconcile reads a Node from the Kubernetes object store, *)
(* asks Nautobot for the device's site and rack, merges the two topology   *)
(* labels into the node's label map and submits an Update.  One Reconcile  *)
(* invocation is split at its three blocking calls (Get, the HTTP lookup,  *)
(* Update) so that other writers of the node and changes of the inventory  *)
(* interleave with it.  The driver runs at most one invocation per node.   *)
(***************************************************************************)
EXTENDS Integers, Sequences, FiniteSets, TLC

VARIABLES
    cluster,     \* node identities the driver delivers requests for
    store,       \* object store: per node [exists, labels, rv]
    nautobot,    \* inventory: per device name, the HTTP response it serves
    budget,      \* remaining changes by other writers / inventory edits
    pc,          \* per node: position of the in-flight Reconcile
    node,        \* per node: Reconcile's local `node` (labels, rv)
    deviceData,  \* per node: Reconcile's local `deviceData`
    result,      \* per node: (ctrl.Result, error) returned by Reconcile
    hist,        \* per node: what the current invocation has done so far
    lastWrite,   \* per node: record and version of the last accepted Update,
                 \* while the stored node is as that Update left it
    call,        \* one GetDeviceData call on its own: input, stage, output
    ctx,         \* per node: the invocation context, "live" or "cancelled"
    simple       \* per node: an invocation of the simpler Reconcile variant

vars == <<cluster, store, nautobot, budget, pc, node, deviceData, result,
          hist, lastWrite, call, ctx, simple>>

----------------------------------------------------------------------------
(* Bounds *)

MaxEnvSteps == 2

\* longest node name, and longest result list, given to GetDeviceData alone
MaxNameLen == 3
MaxResults == 2

\* changes by other writers / inventory edits when two nodes are reconciled
MaxPairEnvSteps == 1

\* changes by other writers / inventory edits / cancellations when the
\* invocation context can be cancelled
MaxCtxEnvSteps == 2

----------------------------------------------------------------------------
(* Program constants *)

Minute == 1
Hour == 60

ZoneKey == "topology.kubernetes.io/zone"
RackKey == "topology.kubernetes.io/rack"
OtherKey == "kubernetes.io/os"

ManagedKeys == {ZoneKey, RackKey}
LabelKeys == {ZoneKey, RackKey, OtherKey}

\* node identities, as character sequences
NodeFQDN == <<"n", "1", ".", "c">>
NodeShort == <<"n", "2">>
Nodes == {NodeFQDN, NodeShort}

SiteNames == {"", "dc1", "dc2"}
RackNames == {"", "r12"}
OtherVals == {"linux"}

KeyVals(k) ==
    IF k = ZoneKey THEN SiteNames
    ELSE IF k = RackKey THEN RackNames
    ELSE OtherVals

----------------------------------------------------------------------------
(* Label maps (map[string]string) *)

EmptyMap == [k \in {} |-> ""]

\* m[k] of a Go map: the zero value "" when the key is missing
MapGet(m, k) == IF k \in DOMAIN m THEN m[k] ELSE ""

MapHas(m, k) == k \in DOMAIN m

\* m[k] = v
MapSet(m, k, v) == [x \in (DOMAIN m) \cup {k} |-> IF x = k THEN v ELSE m[x]]

MapDelete(m, k) == [x \in (DOMAIN m) \ {k} |-> m[x]]

LabelMaps ==
    UNION { { m \in [D -> SiteNames \cup RackNames \cup OtherVals] :
                \A k \in D : m[k] \in KeyVals(k) } : D \in SUBSET LabelKeys }

\* label maps of a node that has just registered
KubeletLabels == { m \in LabelMaps : DOMAIN m \subseteq LabelKeys \ ManagedKeys }

\* node.Labels as decoded from the object store: an empty map arrives as nil
DecodeLabels(m) == [isNil |-> (DOMAIN m = {}), m |-> m]

NilLabels == [isNil |-> TRUE, m |-> EmptyMap]

----------------------------------------------------------------------------
(* Inventory client *)

\* strings.Index(s, c): 0-based index of the first c, -1 if none
StringsIndex(s, c) ==
    IF \E i \in 1..Len(s) : s[i] = c
    THEN (CHOOSE i \in 1..Len(s) :
              s[i] = c /\ \A j \in 1..(i - 1) : s[j] # c) - 1
    ELSE -1


\* variant: a dot at index 0 also cuts the name
HostnameAnyDot(nodeName) ==
    LET dotIndex == StringsIndex(nodeName, ".")
    IN  IF dotIndex >= 0 THEN SubSeq(nodeName, 1, dotIndex) ELSE nodeName

\* hostname part used as the lookup key
Hostname(nodeName) ==
    LET dotIndex == StringsIndex(nodeName, ".")
    IN  IF dotIndex > 0 THEN SubSeq(nodeName, 1, dotIndex) ELSE nodeName

DeviceNames == { Hostname(n) : n \in Nodes }

SiteFields == { [name |-> "", display |-> ""],
                [name |-> "dc1", display |-> "dc2"],
                [name |-> "", display |-> "dc2"] }
RackFields == { [name |-> "", display |-> ""],
                [name |-> "", display |-> "r12"] }

Devices == [site : SiteFields, rack : RackFields]

\* deviceResponse.Results
Envelopes == {<<>>} \cup { <<d>> : d \in Devices }

\* what the HTTP round trip to Nautobot yields
Responses ==
    { [transport |-> "fail", status |-> 0, decodes |-> FALSE, results |-> <<>>] }
    \cup { [transport |-> "ok", status |-> s, decodes |-> FALSE, results |-> <<>>] :
             s \in {200, 204, 503} }
    \cup { [transport |-> "ok", status |-> 200, decodes |-> TRUE, results |-> e] :
             e \in Envelopes }

NoData == [SiteName |-> "", RackName |-> ""]

\* the answer for a device the inventory does not have
NoDevice == [transport |-> "ok", status |-> 200, decodes |-> TRUE,
             results |-> <<>>]

\* no call of GetDeviceData on its own is under way
NoOutput == [err |-> "none", data |-> NoData]

NoCall == [stage |-> "none", nodeName |-> <<>>, resp |-> NoDevice,
           hostname |-> <<>>, out |-> NoOutput]


\* variant: display is preferred to name
NameOrDisplayPreferDisplay(f) == IF f.display = "" THEN f.name ELSE f.display

\* name, falling back to display
NameOrDisplay(f) == IF f.name = "" THEN f.display ELSE f.name


\* variant: every 2xx status is taken as success
DeviceDataFromAny2xx(resp) ==
    IF resp.transport # "ok" THEN [err |-> "transport", data |-> NoData]
    ELSE IF resp.status < 200 \/ resp.status > 299
         THEN [err |-> "status", data |-> NoData]
    ELSE IF ~resp.decodes THEN [err |-> "decode", data |-> NoData]
    ELSE IF Len(resp.results) = 0 THEN [err |-> "notfound", data |-> NoData]
    ELSE [err |-> "nil",
          data |-> [SiteName |-> NameOrDisplay(resp.results[1].site),
                    RackName |-> NameOrDisplay(resp.results[1].rack)]]

\* NautobotClient.GetDeviceData, given the response to its request
DeviceDataFrom(resp) ==
    IF resp.transport # "ok" THEN [err |-> "transport", data |-> NoData]
    ELSE IF resp.status # 200 THEN [err |-> "status", data |-> NoData]
    ELSE IF ~resp.decodes THEN [err |-> "decode", data |-> NoData]
    ELSE IF Len(resp.results) = 0 THEN [err |-> "notfound", data |-> NoData]
    ELSE [err |-> "nil",
          data |-> [SiteName |-> NameOrDisplay(resp.results[1].site),
                    RackName |-> NameOrDisplay(resp.results[1].rack)]]


\* variant: the client keeps the hostname of the first node it was asked for
GetDeviceDataFirstNode(nodeName) == DeviceDataFrom(nautobot[Hostname(NodeFQDN)])

GetDeviceData(nodeName) == DeviceDataFrom(nautobot[Hostname(nodeName)])

----------------------------------------------------------------------------
(* Reconciler *)

\* variant: only the zone label is inspected
hasAllLabelsZoneOnly(labels) ==
    IF labels.isNil THEN FALSE
    ELSE MapHas(labels.m, ZoneKey) /\ MapGet(labels.m, ZoneKey) # ""

hasAllLabels(labels) ==
    IF labels.isNil THEN FALSE
    ELSE /\ MapHas(labels.m, ZoneKey)
         /\ MapHas(labels.m, RackKey)
         /\ MapGet(labels.m, ZoneKey) # ""
         /\ MapGet(labels.m, RackKey) # ""

\* variant: every Get error is dropped
IgnoreAnyError(err) == "nil"

\* client.IgnoreNotFound
IgnoreNotFound(err) == IF err = "NotFound" THEN "nil" ELSE err

\* if node.Labels == nil { node.Labels = map[string]string{} }
EnsureLabels(labels) ==
    IF labels.isNil THEN [isNil |-> FALSE, m |-> EmptyMap] ELSE labels

\* variant: the value is assigned even when it is empty
NeedsUpdateAllowEmpty(labels, key, value) ==
    MapGet(labels.m, key) # value

\* variant: the value is assigned even when it is already there
NeedsUpdateNoCompare(labels, key, value) ==
    value # ""

\* the condition guarding the assignment of one managed label
NeedsUpdate(labels, key, value) ==
    value # "" /\ MapGet(labels.m, key) # value

\* one `if ... { node.Labels[key] = value; updated = true }` block
SetIfNeeded(labels, key, value) ==
    IF NeedsUpdate(labels, key, value)
    THEN [labels EXCEPT !.m = MapSet(labels.m, key, value)]
    ELSE labels

\* variant: only the zone label is assigned
MergeLabelsZoneOnly(labels, data) ==
    SetIfNeeded(EnsureLabels(labels), ZoneKey, data.SiteName)

\* variant: the label map is rebuilt from the two managed labels
MergeLabelsReplace(labels, data) ==
    SetIfNeeded(SetIfNeeded([isNil |-> FALSE, m |-> EmptyMap],
                            ZoneKey, data.SiteName),
                RackKey, data.RackName)


\* variant: the rack block is the else branch of the zone block
MergeLabelsElseIf(labels, data) ==
    LET l0 == EnsureLabels(labels)
    IN  IF NeedsUpdate(l0, ZoneKey, data.SiteName)
        THEN SetIfNeeded(l0, ZoneKey, data.SiteName)
        ELSE SetIfNeeded(l0, RackKey, data.RackName)

\* node.Labels after step 3
MergeLabels(labels, data) ==
    SetIfNeeded(SetIfNeeded(EnsureLabels(labels), ZoneKey, data.SiteName),
                RackKey, data.RackName)

\* variant: the flag reflects the rack label only
UpdatedRackOnly(labels, data) ==
    LET l0 == EnsureLabels(labels)
        l1 == SetIfNeeded(l0, ZoneKey, data.SiteName)
    IN  NeedsUpdate(l1, RackKey, data.RackName)

\* the `updated` flag after step 3
Updated(labels, data) ==
    LET l0 == EnsureLabels(labels)
        l1 == SetIfNeeded(l0, ZoneKey, data.SiteName)
    IN  NeedsUpdate(l0, ZoneKey, data.SiteName)
        \/ NeedsUpdate(l1, RackKey, data.RackName)

GetErrorResult(err) == [RequeueAfter |-> 0, err |-> IgnoreNotFound(err)]
AllLabelsResult == [RequeueAfter |-> 12 * Hour, err |-> "nil"]

\* variant: the lookup error is returned, without a delay
LookupErrorResultReturnErr(err) == [RequeueAfter |-> 0, err |-> err]

LookupErrorResult(err) == [RequeueAfter |-> 5 * Minute, err |-> "nil"]

\* variant: the write error is only logged
UpdateErrorResultSwallow(err) == [RequeueAfter |-> 1 * Minute, err |-> "nil"]

UpdateErrorResult(err) == [RequeueAfter |-> 1 * Minute, err |-> err]
UpdateOkResult == [RequeueAfter |-> 1 * Hour, err |-> "nil"]

\* variant: nothing to update ends without a requeue delay
NoUpdateResultNoRequeue == [RequeueAfter |-> 0, err |-> "nil"]

NoUpdateResult == [RequeueAfter |-> 6 * Hour, err |-> "nil"]

NoResult == [RequeueAfter |-> 0, err |-> "none"]

NoHist == [ctx |-> "none", got |-> "none", gets |-> 0, read |-> EmptyMap,
           lookupErr |-> "none", lookups |-> 0, updates |-> 0,
           sent |-> EmptyMap, updateErr |-> "none"]

NoNode == [labels |-> NilLabels, rv |-> 0]

NoWrite == [valid |-> FALSE, rec |-> NoData, rv |-> 0]

NoSimple == [pc |-> "idle", node |-> NoNode, deviceData |-> NoData,
             result |-> NoResult, got |-> "none", read |-> EmptyMap,
             lookupErr |-> "none", updates |-> 0, sent |-> EmptyMap,
             updateErr |-> "none"]

\* r.Get(ctx, ...): what the object store answers.  The manager's client
\* reads from its cache, which answers whatever the context; a read that
\* goes to the server with a cancelled context fails with the context's error
GetOutcomes(n) ==
    (IF store[n].exists THEN {"nil"} ELSE {"NotFound"}) \cup {"ServerError"}
        \cup (IF ctx[n] = "cancelled" THEN {"Canceled"} ELSE {})

\* r.Update: what the object store answers to a write of the local node
UpdateOutcomes(n) ==
    IF ctx[n] = "cancelled" THEN {"Canceled"}
    ELSE (IF ~store[n].exists THEN {"NotFound"}
          ELSE IF store[n].rv # node[n].rv THEN {"Conflict"}
          ELSE {"nil"}) \cup {"ServerError"}

\* Reconcile up to the lookup: Get, then the all-labels short circuit
ReconcileGet(n) ==
    /\ n \in cluster
    /\ pc[n] = "idle"
    /\ \E err \in GetOutcomes(n) :
         IF err # "nil"
         THEN /\ result' = [result EXCEPT ![n] = GetErrorResult(err)]
              /\ hist' = [hist EXCEPT ![n] =
                            [NoHist EXCEPT !.ctx = ctx[n],
                                           !.got = err,
                                           !.gets = hist[n].gets + 1]]
              /\ pc' = [pc EXCEPT ![n] = "done"]
              /\ UNCHANGED node
         ELSE LET got == [labels |-> DecodeLabels(store[n].labels),
                          rv |-> store[n].rv]
              IN  /\ node' = [node EXCEPT ![n] = got]
                  /\ hist' = [hist EXCEPT ![n] =
                                [NoHist EXCEPT !.ctx = ctx[n],
                                               !.got = "ok",
                                               !.gets = hist[n].gets + 1,
                                               !.read = store[n].labels]]
                  /\ IF hasAllLabels(got.labels)
                     THEN /\ result' = [result EXCEPT ![n] = AllLabelsResult]
                          /\ pc' = [pc EXCEPT ![n] = "done"]
                     ELSE /\ pc' = [pc EXCEPT ![n] = "lookup"]
                          /\ UNCHANGED result
    /\ UNCHANGED <<simple, ctx, call, cluster, store, nautobot, budget, deviceData, lastWrite>>

\* variant: the lookup error is logged and the invocation goes on to the
\* write of the node as read
ReconcileLookupNoReturn(n) ==
    /\ pc[n] = "lookup"
    /\ LET r == GetDeviceData(n)
       IN  /\ deviceData' = [deviceData EXCEPT ![n] = r.data]
           /\ node' = [node EXCEPT ![n].labels =
                           MergeLabels(node[n].labels, r.data)]
           /\ hist' = [hist EXCEPT ![n].lookupErr = r.err,
                                   ![n].lookups = @ + 1]
           /\ IF r.err # "nil" \/ Updated(node[n].labels, r.data)
              THEN /\ pc' = [pc EXCEPT ![n] = "update"]
                   /\ UNCHANGED result
              ELSE /\ result' = [result EXCEPT ![n] = NoUpdateResult]
                   /\ pc' = [pc EXCEPT ![n] = "done"]
    /\ UNCHANGED <<simple, ctx, call, cluster, store, nautobot, budget, lastWrite>>

\* Reconcile from the lookup up to the write: GetDeviceData, then step 3
ReconcileLookup(n) ==
    /\ pc[n] = "lookup"
    /\ LET r == GetDeviceData(n)
       IN  IF r.err # "nil"
           THEN /\ result' = [result EXCEPT ![n] = LookupErrorResult(r.err)]
                /\ hist' = [hist EXCEPT ![n].lookupErr = r.err,
                                        ![n].lookups = @ + 1]
                /\ pc' = [pc EXCEPT ![n] = "done"]
                /\ UNCHANGED <<node, deviceData>>
           ELSE /\ deviceData' = [deviceData EXCEPT ![n] = r.data]
                /\ node' = [node EXCEPT ![n].labels =
                                MergeLabels(node[n].labels, r.data)]
                /\ hist' = [hist EXCEPT ![n].lookupErr = "nil",
                                        ![n].lookups = @ + 1]
                /\ IF Updated(node[n].labels, r.data)
                   THEN /\ pc' = [pc EXCEPT ![n] = "update"]
                        /\ UNCHANGED result
                   ELSE /\ result' = [result EXCEPT ![n] = NoUpdateResult]
                        /\ pc' = [pc EXCEPT ![n] = "done"]
    /\ UNCHANGED <<simple, ctx, call, cluster, store, nautobot, budget, lastWrite>>


\* variant: the node is written without the version that was read
ReconcileUpdateForce(n) ==
    /\ pc[n] = "update"
    /\ \E err \in (IF store[n].exists THEN {"nil"} ELSE {"NotFound"})
                     \cup {"ServerError"} :
         IF err = "nil"
         THEN /\ store' = [store EXCEPT ![n].labels = node[n].labels.m,
                                        ![n].rv = @ + 1]
              /\ lastWrite' = [lastWrite EXCEPT ![n] =
                                 [valid |-> TRUE, rec |-> deviceData[n],
                                  rv |-> store[n].rv + 1]]
              /\ result' = [result EXCEPT ![n] = UpdateOkResult]
              /\ hist' = [hist EXCEPT ![n].updates = @ + 1,
                                      ![n].sent = node[n].labels.m,
                                      ![n].updateErr = "nil"]
         ELSE /\ result' = [result EXCEPT ![n] = UpdateErrorResult(err)]
              /\ hist' = [hist EXCEPT ![n].updates = @ + 1,
                                      ![n].sent = node[n].labels.m,
                                      ![n].updateErr = err]
              /\ UNCHANGED <<store, lastWrite>>
    /\ pc' = [pc EXCEPT ![n] = "done"]
    /\ UNCHANGED <<simple, ctx, call, cluster, nautobot, budget, node, deviceData>>

\* variant: on a conflict the invocation starts over at the Get
ReconcileUpdateRetry(n) ==
    /\ pc[n] = "update"
    /\ \E err \in UpdateOutcomes(n) :
         IF err = "nil"
         THEN /\ store' = [store EXCEPT ![n].labels = node[n].labels.m,
                                        ![n].rv = @ + 1]
              /\ lastWrite' = [lastWrite EXCEPT ![n] =
                                 [valid |-> TRUE, rec |-> deviceData[n],
                                  rv |-> store[n].rv + 1]]
              /\ result' = [result EXCEPT ![n] = UpdateOkResult]
              /\ hist' = [hist EXCEPT ![n].updates = @ + 1,
                                      ![n].sent = node[n].labels.m,
                                      ![n].updateErr = "nil"]
              /\ pc' = [pc EXCEPT ![n] = "done"]
         ELSE /\ result' = [result EXCEPT ![n] = UpdateErrorResult(err)]
              /\ hist' = [hist EXCEPT ![n].updates = @ + 1,
                                      ![n].sent = node[n].labels.m,
                                      ![n].updateErr = err]
              /\ pc' = [pc EXCEPT ![n] =
                          IF err = "Conflict" THEN "idle" ELSE "done"]
              /\ UNCHANGED <<store, lastWrite>>
    /\ UNCHANGED <<simple, ctx, call, cluster, nautobot, budget, node, deviceData>>

\* Reconcile step 4: r.Update of the local node
ReconcileUpdate(n) ==
    /\ pc[n] = "update"
    /\ \E err \in UpdateOutcomes(n) :
         IF err = "nil"
         THEN /\ store' = [store EXCEPT ![n].labels = node[n].labels.m,
                                        ![n].rv = @ + 1]
              /\ lastWrite' = [lastWrite EXCEPT ![n] =
                                 [valid |-> TRUE, rec |-> deviceData[n],
                                  rv |-> store[n].rv + 1]]
              /\ result' = [result EXCEPT ![n] = UpdateOkResult]
              /\ hist' = [hist EXCEPT ![n].updates = @ + 1,
                                      ![n].sent = node[n].labels.m,
                                      ![n].updateErr = "nil"]
         ELSE /\ result' = [result EXCEPT ![n] = UpdateErrorResult(err)]
              /\ hist' = [hist EXCEPT ![n].updates = @ + 1,
                                      ![n].sent = node[n].labels.m,
                                      ![n].updateErr = err]
              /\ UNCHANGED <<store, lastWrite>>
    /\ pc' = [pc EXCEPT ![n] = "done"]
    /\ UNCHANGED <<simple, ctx, call, cluster, nautobot, budget, node, deviceData>>

\* the driver takes the returned outcome; the node may be reconciled again
Requeue(n) ==
    /\ pc[n] = "done"
    /\ pc' = [pc EXCEPT ![n] = "idle"]
    /\ node' = [node EXCEPT ![n] = NoNode]
    /\ deviceData' = [deviceData EXCEPT ![n] = NoData]
    /\ result' = [result EXCEPT ![n] = NoResult]
    /\ hist' = [hist EXCEPT ![n] = NoHist]
    /\ ctx' = [ctx EXCEPT ![n] = "live"]
    /\ UNCHANGED <<simple, call, cluster, store, nautobot, budget, lastWrite>>

----------------------------------------------------------------------------
(* Environment: other clients of the object store, and the inventory *)

\* another client sets one label of the node
OtherSetLabel(n) ==
    /\ n \in cluster
    /\ budget > 0
    /\ store[n].exists
    /\ \E k \in LabelKeys : \E v \in KeyVals(k) :
         /\ MapGet(store[n].labels, k) # v \/ ~MapHas(store[n].labels, k)
         /\ store' = [store EXCEPT ![n].labels = MapSet(@, k, v),
                                   ![n].rv = @ + 1]
    /\ lastWrite' = [lastWrite EXCEPT ![n] = NoWrite]
    /\ budget' = budget - 1
    /\ UNCHANGED <<simple, ctx, call, cluster, nautobot, pc, node, deviceData, result, hist>>

\* another client removes one label of the node
OtherDeleteLabel(n) ==
    /\ n \in cluster
    /\ budget > 0
    /\ store[n].exists
    /\ \E k \in DOMAIN store[n].labels :
         store' = [store EXCEPT ![n].labels = MapDelete(@, k),
                                ![n].rv = @ + 1]
    /\ lastWrite' = [lastWrite EXCEPT ![n] = NoWrite]
    /\ budget' = budget - 1
    /\ UNCHANGED <<simple, ctx, call, cluster, nautobot, pc, node, deviceData, result, hist>>

\* the node is deleted from the cluster
DeleteNode(n) ==
    /\ n \in cluster
    /\ budget > 0
    /\ store[n].exists
    /\ store' = [store EXCEPT ![n].exists = FALSE,
                              ![n].labels = EmptyMap,
                              ![n].rv = @ + 1]
    /\ lastWrite' = [lastWrite EXCEPT ![n] = NoWrite]
    /\ budget' = budget - 1
    /\ UNCHANGED <<simple, ctx, call, cluster, nautobot, pc, node, deviceData, result, hist>>

\* the node registers (again), with the labels its kubelet sets
CreateNode(n) ==
    /\ n \in cluster
    /\ budget > 0
    /\ ~store[n].exists
    /\ \E m \in KubeletLabels :
         store' = [store EXCEPT ![n].exists = TRUE,
                                ![n].labels = m,
                                ![n].rv = @ + 1]
    /\ lastWrite' = [lastWrite EXCEPT ![n] = NoWrite]
    /\ budget' = budget - 1
    /\ UNCHANGED <<simple, ctx, call, cluster, nautobot, pc, node, deviceData, result, hist>>

\* the inventory's answer for a device changes
InventoryChange(n) ==
    /\ n \in cluster
    /\ budget > 0
    /\ \E resp \in Responses :
         /\ resp # nautobot[Hostname(n)]
         /\ nautobot' = [nautobot EXCEPT ![Hostname(n)] = resp]
    /\ budget' = budget - 1
    /\ UNCHANGED <<simple, ctx, call, cluster, store, pc, node, deviceData, result, hist,
                   lastWrite>>

----------------------------------------------------------------------------

InitCommon ==
    /\ budget = MaxEnvSteps
    /\ call = NoCall
    /\ ctx = [n \in Nodes |-> "live"]
    /\ simple = [n \in Nodes |-> NoSimple]
    /\ pc = [n \in Nodes |-> "idle"]
    /\ node = [n \in Nodes |-> NoNode]
    /\ deviceData = [n \in Nodes |-> NoData]
    /\ result = [n \in Nodes |-> NoResult]
    /\ hist = [n \in Nodes |-> NoHist]
    /\ lastWrite = [n \in Nodes |-> NoWrite]

\* one node in the cluster, with any labels, and any inventory answer for it
Init ==
    /\ cluster = {NodeFQDN}
    /\ \E m \in LabelMaps :
         store = [n \in Nodes |->
                    IF n \in cluster
                    THEN [exists |-> TRUE, labels |-> m, rv |-> 1]
                    ELSE [exists |-> FALSE, labels |-> EmptyMap, rv |-> 0]]
    /\ \E resp \in Responses :
         nautobot = [h \in DeviceNames |->
                       IF h = Hostname(NodeFQDN) THEN resp ELSE NoDevice]
    /\ InitCommon

Next ==
    \/ \E n \in Nodes : ReconcileGet(n)
    \/ \E n \in Nodes : ReconcileLookup(n)
    \/ \E n \in Nodes : ReconcileUpdate(n)
    \/ \E n \in Nodes : Requeue(n)
    \/ \E n \in Nodes : OtherSetLabel(n)
    \/ \E n \in Nodes : OtherDeleteLabel(n)
    \/ \E n \in Nodes : DeleteNode(n)
    \/ \E n \in Nodes : CreateNode(n)
    \/ \E n \in Nodes : InventoryChange(n)

Spec == Init /\ [][Next]_vars

----------------------------------------------------------------------------
(* Two nodes reconciled concurrently *)

PairLabels ==
    { EmptyMap,
      [k \in {ZoneKey, OtherKey} |-> IF k = ZoneKey THEN "dc1" ELSE "linux"],
      [k \in ManagedKeys |-> IF k = ZoneKey THEN "dc1" ELSE "r12"] }

PairResponses ==
    { r \in Responses :
        \/ r.status = 503
        \/ /\ r.decodes
           /\ Len(r.results) = 1
           /\ r.results[1].site.name = ""
           /\ r.results[1].site.display # ""
           /\ r.results[1].rack.name = ""
           /\ r.results[1].rack.display = "r12" }

\* both nodes in the cluster, each present or not, each with its own device
InitPair ==
    /\ cluster = Nodes
    /\ store \in [Nodes ->
                    { [exists |-> FALSE, labels |-> EmptyMap, rv |-> 1] }
                    \cup { [exists |-> TRUE, labels |-> m, rv |-> 1] :
                             m \in PairLabels }]
    /\ nautobot \in [DeviceNames -> PairResponses]
    /\ budget = MaxPairEnvSteps
    /\ call = NoCall
    /\ ctx = [n \in Nodes |-> "live"]
    /\ simple = [n \in Nodes |-> NoSimple]
    /\ pc = [n \in Nodes |-> "idle"]
    /\ node = [n \in Nodes |-> NoNode]
    /\ deviceData = [n \in Nodes |-> NoData]
    /\ result = [n \in Nodes |-> NoResult]
    /\ hist = [n \in Nodes |-> NoHist]
    /\ lastWrite = [n \in Nodes |-> NoWrite]

SpecPair == InitPair /\ [][Next]_vars

----------------------------------------------------------------------------
(* Cancellation of the invocation context *)

\* the driver cancels the context it gave (or gives) the node's invocation
CancelContext(n) ==
    /\ n \in cluster
    /\ budget > 0
    /\ ctx[n] = "live"
    /\ pc[n] # "done"
    /\ ctx' = [ctx EXCEPT ![n] = "cancelled"]
    /\ budget' = budget - 1
    /\ UNCHANGED <<simple, call, cluster, store, nautobot, pc, node, deviceData,
                   result, hist, lastWrite>>

\* one node, whose invocation context may be cancelled
InitCtx ==
    /\ cluster = {NodeFQDN}
    /\ \E m \in PairLabels :
         store = [n \in Nodes |->
                    IF n \in cluster
                    THEN [exists |-> TRUE, labels |-> m, rv |-> 1]
                    ELSE [exists |-> FALSE, labels |-> EmptyMap, rv |-> 0]]
    /\ \E resp \in PairResponses :
         nautobot = [h \in DeviceNames |->
                       IF h = Hostname(NodeFQDN) THEN resp ELSE NoDevice]
    /\ budget = MaxCtxEnvSteps
    /\ call = NoCall
    /\ ctx = [n \in Nodes |-> "live"]
    /\ simple = [n \in Nodes |-> NoSimple]
    /\ pc = [n \in Nodes |-> "idle"]
    /\ node = [n \in Nodes |-> NoNode]
    /\ deviceData = [n \in Nodes |-> NoData]
    /\ result = [n \in Nodes |-> NoResult]
    /\ hist = [n \in Nodes |-> NoHist]
    /\ lastWrite = [n \in Nodes |-> NoWrite]

NextCtx ==
    \/ Next
    \/ \E n \in Nodes : CancelContext(n)

SpecCtx == InitCtx /\ [][NextCtx]_vars

----------------------------------------------------------------------------
(* The simpler Reconcile variant (part_001), run beside main.go's on the   *)
(* same object store and the same inventory                                *)

\* GetDeviceData of the variant: the device is asked for by the whole node
\* name; the inventory has no device under a name it does not know
SimpleGetDeviceData(nodeName) ==
    DeviceDataFrom(IF nodeName \in DOMAIN nautobot
                   THEN nautobot[nodeName] ELSE NoDevice)

\* variant: the assignment is guarded against the empty value, as in main.go
SimpleNeedsUpdateGuarded(labels, key, value) ==
    value # "" /\ MapGet(labels.m, key) # value

\* if node.Labels[key] != value
SimpleNeedsUpdate(labels, key, value) ==
    MapGet(labels.m, key) # value

SimpleSetIfNeeded(labels, key, value) ==
    IF SimpleNeedsUpdate(labels, key, value)
    THEN [labels EXCEPT !.m = MapSet(labels.m, key, value)]
    ELSE labels

\* node.Labels after step 3 of the variant
SimpleMergeLabels(labels, data) ==
    SimpleSetIfNeeded(SimpleSetIfNeeded(EnsureLabels(labels),
                                        ZoneKey, data.SiteName),
                      RackKey, data.RackName)

\* the `updated` flag after step 3 of the variant
SimpleUpdated(labels, data) ==
    LET l0 == EnsureLabels(labels)
        l1 == SimpleSetIfNeeded(l0, ZoneKey, data.SiteName)
    IN  SimpleNeedsUpdate(l0, ZoneKey, data.SiteName)
        \/ SimpleNeedsUpdate(l1, RackKey, data.RackName)

\* every return of the variant is ctrl.Result{} with or without an error
SimpleResult(err) == [RequeueAfter |-> 0, err |-> err]

SimpleGetOutcomes(n) ==
    (IF store[n].exists THEN {"nil"} ELSE {"NotFound"}) \cup {"ServerError"}

SimpleUpdateOutcomes(n) ==
    (IF ~store[n].exists THEN {"NotFound"}
     ELSE IF store[n].rv # simple[n].node.rv THEN {"Conflict"}
     ELSE {"nil"}) \cup {"ServerError"}

\* the variant's step 1: Get; there is no short circuit
SimpleReconcileGet(n) ==
    /\ n \in cluster
    /\ simple[n].pc = "idle"
    /\ \E err \in SimpleGetOutcomes(n) :
         IF err # "nil"
         THEN simple' = [simple EXCEPT ![n] =
                           [NoSimple EXCEPT
                              !.pc = "done",
                              !.got = err,
                              !.result = SimpleResult(IgnoreNotFound(err))]]
         ELSE simple' = [simple EXCEPT ![n] =
                           [NoSimple EXCEPT
                              !.pc = "lookup",
                              !.got = "ok",
                              !.read = store[n].labels,
                              !.node = [labels |-> DecodeLabels(store[n].labels),
                                        rv |-> store[n].rv]]]
    /\ UNCHANGED <<ctx, call, cluster, store, nautobot, budget, pc, node,
                   deviceData, result, hist, lastWrite>>

\* the variant's steps 2 and 3: GetDeviceData, then the label assignments
SimpleReconcileLookup(n) ==
    /\ simple[n].pc = "lookup"
    /\ LET r == SimpleGetDeviceData(n)
       IN  IF r.err # "nil"
           THEN simple' = [simple EXCEPT ![n].lookupErr = r.err,
                                         ![n].result = SimpleResult(r.err),
                                         ![n].pc = "done"]
           ELSE IF SimpleUpdated(simple[n].node.labels, r.data)
           THEN simple' = [simple EXCEPT
                             ![n].lookupErr = "nil",
                             ![n].deviceData = r.data,
                             ![n].node.labels =
                                 SimpleMergeLabels(simple[n].node.labels, r.data),
                             ![n].pc = "update"]
           ELSE simple' = [simple EXCEPT
                             ![n].lookupErr = "nil",
                             ![n].deviceData = r.data,
                             ![n].node.labels =
                                 SimpleMergeLabels(simple[n].node.labels, r.data),
                             ![n].result = SimpleResult("nil"),
                             ![n].pc = "done"]
    /\ UNCHANGED <<ctx, call, cluster, store, nautobot, budget, pc, node,
                   deviceData, result, hist, lastWrite>>

\* the variant's step 4: r.Update of its local node
SimpleReconcileUpdate(n) ==
    /\ simple[n].pc = "update"
    /\ \E err \in SimpleUpdateOutcomes(n) :
         /\ simple' = [simple EXCEPT ![n].updates = @ + 1,
                                     ![n].sent = simple[n].node.labels.m,
                                     ![n].updateErr = err,
                                     ![n].result = SimpleResult(err),
                                     ![n].pc = "done"]
         /\ IF err = "nil"
            THEN /\ store' = [store EXCEPT
                                ![n].labels = simple[n].node.labels.m,
                                ![n].rv = @ + 1]
                 /\ lastWrite' = [lastWrite EXCEPT ![n] = NoWrite]
            ELSE UNCHANGED <<store, lastWrite>>
    /\ UNCHANGED <<ctx, call, cluster, nautobot, budget, pc, node, deviceData,
                   result, hist>>

\* the driver takes the variant's outcome
SimpleRequeue(n) ==
    /\ simple[n].pc = "done"
    /\ simple' = [simple EXCEPT ![n] = NoSimple]
    /\ UNCHANGED <<ctx, call, cluster, store, nautobot, budget, pc, node,
                   deviceData, result, hist, lastWrite>>

\* one node whose name has no dot, with any labels and any inventory answer
InitBoth ==
    /\ cluster = {NodeShort}
    /\ \E m \in LabelMaps :
         store = [n \in Nodes |->
                    IF n \in cluster
                    THEN [exists |-> TRUE, labels |-> m, rv |-> 1]
                    ELSE [exists |-> FALSE, labels |-> EmptyMap, rv |-> 0]]
    /\ \E resp \in Responses :
         nautobot = [h \in DeviceNames |->
                       IF h = Hostname(NodeShort) THEN resp ELSE NoDevice]
    /\ budget = 0
    /\ call = NoCall
    /\ ctx = [n \in Nodes |-> "live"]
    /\ simple = [n \in Nodes |-> NoSimple]
    /\ pc = [n \in Nodes |-> "idle"]
    /\ node = [n \in Nodes |-> NoNode]
    /\ deviceData = [n \in Nodes |-> NoData]
    /\ result = [n \in Nodes |-> NoResult]
    /\ hist = [n \in Nodes |-> NoHist]
    /\ lastWrite = [n \in Nodes |-> NoWrite]

NextBoth ==
    \/ \E n \in Nodes : ReconcileGet(n)
    \/ \E n \in Nodes : ReconcileLookup(n)
    \/ \E n \in Nodes : ReconcileUpdate(n)
    \/ \E n \in Nodes : Requeue(n)
    \/ \E n \in Nodes : SimpleReconcileGet(n)
    \/ \E n \in Nodes : SimpleReconcileLookup(n)
    \/ \E n \in Nodes : SimpleReconcileUpdate(n)
    \/ \E n \in Nodes : SimpleRequeue(n)

SpecBoth == InitBoth /\ [][NextBoth]_vars

----------------------------------------------------------------------------
(* The driver's scheduling *)

\* Get answered by the object store (the node, or not found)
GetAnswered(n) == ReconcileGet(n) /\ hist'[n].got # "ServerError"

\* Update answered by the object store (accepted, conflict or not found)
UpdateAnswered(n) == ReconcileUpdate(n) /\ hist'[n].updateErr # "ServerError"

\* every returned outcome is followed by a new invocation, an invocation
\* runs to its end, and the object store does not fail for ever
Fairness ==
    \A n \in Nodes :
        /\ WF_vars(Requeue(n))
        /\ WF_vars(ReconcileLookup(n))
        /\ SF_vars(GetAnswered(n))
        /\ SF_vars(UpdateAnswered(n))

SpecLive == Init /\ [][Next]_vars /\ Fairness

----------------------------------------------------------------------------
(* NautobotClient.GetDeviceData on its own *)

NameChars == {"a", "b", "."}

\* sequences over S of length 0..k
SeqsUpTo(S, k) == UNION { [1..i -> S] : i \in 0..k }

NodeNames == SeqsUpTo(NameChars, MaxNameLen)

ClientStatuses == {199, 200, 201, 204, 299, 300, 404, 503}

ClientFields == [name : {"", "a"}, display : {"", "b"}]
ClientDevices == [site : ClientFields, rack : ClientFields]
ClientEnvelopes == SeqsUpTo(ClientDevices, MaxResults)

ClientResponses ==
    { [transport |-> "fail", status |-> 0, decodes |-> FALSE, results |-> <<>>] }
    \cup { [transport |-> "ok", status |-> s, decodes |-> FALSE, results |-> <<>>] :
             s \in ClientStatuses }
    \cup { [transport |-> "ok", status |-> s, decodes |-> TRUE, results |-> e] :
             s \in ClientStatuses, e \in ClientEnvelopes }

\* GetDeviceData up to the request: the hostname that goes into the URL
ClientRequest ==
    /\ call.stage = "start"
    /\ call' = [call EXCEPT !.stage = "sent",
                            !.hostname = Hostname(call.nodeName)]
    /\ UNCHANGED <<simple, ctx, cluster, store, nautobot, budget, pc, node,
                   deviceData, result, hist, lastWrite>>

\* GetDeviceData from the response on
ClientResponse ==
    /\ call.stage = "sent"
    /\ call' = [call EXCEPT !.stage = "returned",
                            !.out = DeviceDataFrom(call.resp)]
    /\ UNCHANGED <<simple, ctx, cluster, store, nautobot, budget, pc, node,
                   deviceData, result, hist, lastWrite>>

\* one call, with any node name or any response
InitClient ==
    /\ cluster = {}
    /\ store = [n \in Nodes |->
                  [exists |-> FALSE, labels |-> EmptyMap, rv |-> 0]]
    /\ nautobot = [h \in DeviceNames |-> NoDevice]
    /\ budget = 0
    /\ ctx = [n \in Nodes |-> "live"]
    /\ simple = [n \in Nodes |-> NoSimple]
    /\ pc = [n \in Nodes |-> "idle"]
    /\ node = [n \in Nodes |-> NoNode]
    /\ deviceData = [n \in Nodes |-> NoData]
    /\ result = [n \in Nodes |-> NoResult]
    /\ hist = [n \in Nodes |-> NoHist]
    /\ lastWrite = [n \in Nodes |-> NoWrite]
    /\ \/ \E name \in NodeNames :
            call = [NoCall EXCEPT !.stage = "start", !.nodeName = name]
       \/ \E resp \in ClientResponses :
            call = [NoCall EXCEPT !.stage = "start", !.nodeName = NodeFQDN,
                                  !.resp = resp]

NextClient ==
    \/ ClientRequest
    \/ ClientResponse

SpecClient == InitClient /\ [][NextClient]_vars

----------------------------------------------------------------------------
(* Properties of Reconcile *)

\* both managed keys are present in m with non-empty values
BothNonEmpty(m) ==
    /\ ZoneKey \in DOMAIN m
    /\ RackKey \in DOMAIN m
    /\ m[ZoneKey] # ""
    /\ m[RackKey] # ""

\* key k has the same presence and value in m1 and m2
SameEntry(m1, m2, k) ==
    /\ (k \in DOMAIN m1) <=> (k \in DOMAIN m2)
    /\ (k \in DOMAIN m1 /\ k \in DOMAIN m2) => m1[k] = m2[k]

\* the step of node n is the Update call of its invocation
UpdateStep(n) == pc[n] = "update" /\ pc'[n] = "done"

\* the step is a step of node n's Reconcile (the environment never moves pc)
ReconcileStep(n) == pc'[n] # pc[n]

LookupFailed(n) == hist[n].lookupErr \notin {"none", "nil"}
UpdateRejected(n) == hist[n].updateErr \notin {"none", "nil"}
GetFailed(n) == hist[n].got \notin {"none", "ok"}

\* C1: a node read without both managed labels non-empty, a lookup that
\* yields non-empty site s and rack r, and an accepted Update: the stored
\* node then carries zone = s and rack = r, and Reconcile returns a nil
\* error with RequeueAfter = 1 hour.
C1_WritesBothLabels ==
    [][\A n \in Nodes :
         ( /\ UpdateStep(n)
           /\ hist'[n].updateErr = "nil"
           /\ ~BothNonEmpty(hist[n].read)
           /\ deviceData[n].SiteName # ""
           /\ deviceData[n].RackName # "" )
         => /\ ZoneKey \in DOMAIN store'[n].labels
            /\ RackKey \in DOMAIN store'[n].labels
            /\ store'[n].labels[ZoneKey] = deviceData[n].SiteName
            /\ store'[n].labels[RackKey] = deviceData[n].RackName
            /\ result'[n] = [RequeueAfter |-> 60, err |-> "nil"]]_vars

C1_Witness ==
    \E n \in Nodes :
        /\ pc[n] = "done"
        /\ hist[n].updateErr = "nil"
        /\ hist[n].read = EmptyMap
        /\ deviceData[n] = [SiteName |-> "dc1", RackName |-> "r12"]
        /\ store[n].labels = [k \in ManagedKeys |->
                                IF k = ZoneKey THEN "dc1" ELSE "r12"]
        /\ result[n].RequeueAfter = 60

\* C2: when the node read by Get holds non-empty values for both managed
\* keys, the invocation ends with no lookup and no Update, a nil error and
\* RequeueAfter = 12 hours; when a key is absent or empty the invocation
\* goes on to the inventory lookup.
C2_ShortCircuit ==
    \A n \in Nodes :
        hist[n].got = "ok" =>
            IF BothNonEmpty(hist[n].read)
            THEN /\ pc[n] = "done"
                 /\ hist[n].lookups = 0
                 /\ hist[n].updates = 0
                 /\ result[n] = [RequeueAfter |-> 720, err |-> "nil"]
            ELSE /\ pc[n] \in {"lookup", "update", "done"}
                 /\ pc[n] # "lookup" => hist[n].lookups = 1

C2_Witness ==
    \E n \in Nodes :
        /\ pc[n] = "done"
        /\ hist[n].got = "ok"
        /\ BothNonEmpty(hist[n].read)
        /\ result[n].RequeueAfter = 720

\* C3: no step of Reconcile turns a non-empty managed label of the stored
\* node into an empty or missing one, whatever the inventory answered.
C3_NoErasure ==
    [][\A n \in Nodes : \A k \in ManagedKeys :
         (ReconcileStep(n) /\ MapGet(store[n].labels, k) # "")
         => (k \in DOMAIN store'[n].labels /\ store'[n].labels[k] # "")]_vars

C3_Witness ==
    \E n \in Nodes :
        /\ pc[n] = "done"
        /\ hist[n].updateErr = "nil"
        /\ deviceData[n].SiteName = ""
        /\ MapGet(hist[n].read, ZoneKey) # ""
        /\ MapGet(store[n].labels, ZoneKey) = MapGet(hist[n].read, ZoneKey)

\* C4: every label key other than the two managed ones has the same
\* presence and value in the node submitted to Update, and in the store
\* after any step of Reconcile, as in the node read by Get.
C4_MergeNotReplace ==
    [][\A n \in Nodes : \A k \in LabelKeys \ ManagedKeys :
         ReconcileStep(n) =>
            /\ SameEntry(store'[n].labels, store[n].labels, k)
            /\ UpdateStep(n) =>
                  /\ SameEntry(hist'[n].sent, hist[n].read, k)
                  /\ hist'[n].updateErr = "nil" =>
                        SameEntry(store'[n].labels, hist[n].read, k)]_vars

C4_Witness ==
    \E n \in Nodes :
        /\ pc[n] = "done"
        /\ hist[n].updateErr = "nil"
        /\ OtherKey \in DOMAIN hist[n].read
        /\ OtherKey \in DOMAIN store[n].labels
        /\ store[n].labels # hist[n].read

\* the invocation of n read the node exactly as the last accepted Update
\* left it
ReadsLastWrite(n) ==
    /\ lastWrite[n].valid
    /\ hist[n].got = "ok"
    /\ node[n].rv = lastWrite[n].rv

\* C5: a Reconcile that reads the node as the last accepted Update left it,
\* and gets the same record from the inventory (if it asks at all), performs
\* no Update.
C5_Idempotent ==
    \A n \in Nodes :
        ( /\ ReadsLastWrite(n)
          /\ hist[n].lookupErr = "nil" => deviceData[n] = lastWrite[n].rec )
        => (pc[n] # "update" /\ hist[n].updates = 0)

C5_Witness ==
    \E n \in Nodes :
        /\ ReadsLastWrite(n)
        /\ pc[n] = "done"
        /\ hist[n].lookupErr = "nil"
        /\ deviceData[n] = lastWrite[n].rec
        /\ deviceData[n].SiteName # ""
        /\ deviceData[n].RackName = ""

\* C6 as stated: a failed lookup makes Reconcile return an error together
\* with RequeueAfter = 5 minutes.
C6_LookupErrorReturned ==
    \A n \in Nodes :
        (pc[n] = "done" /\ LookupFailed(n))
        => (result[n].err # "nil" /\ result[n].RequeueAfter = 5)

\* C6 (amended): a failed lookup, whatever its cause, makes Reconcile return
\* a nil error together with RequeueAfter = 5 minutes.
C6_LookupErrorRequeue ==
    \A n \in Nodes :
        (pc[n] = "done" /\ LookupFailed(n))
        => result[n] = [RequeueAfter |-> 5, err |-> "nil"]

C6_Witness ==
    \E n \in Nodes :
        /\ pc[n] = "done"
        /\ hist[n].lookupErr = "status"
        /\ nautobot[Hostname(n)].status = 503
        /\ result[n].RequeueAfter = 5

\* the invocation of n ended on a failure path
Failed(n) == GetFailed(n) \/ LookupFailed(n) \/ UpdateRejected(n)

\* C7: a step of Reconcile that is not an accepted Update leaves the stored
\* node as it was, so an invocation ending on a failure path has not changed
\* it; after a failed lookup the invocation is over and no Update was made.
C7_FailureKeepsStore ==
    [][\A n \in Nodes :
         ReconcileStep(n) =>
            /\ ~(UpdateStep(n) /\ hist'[n].updateErr = "nil")
                  => store'[n] = store[n]
            /\ Failed(n)' => (pc'[n] = "done" /\ store'[n] = store[n])
            /\ LookupFailed(n)' => hist'[n].updates = 0]_vars

C7_Witness ==
    \E n \in Nodes :
        /\ pc[n] = "done"
        /\ hist[n].updateErr = "Conflict"
        /\ store[n].exists
        /\ store[n].labels # hist[n].sent

\* C8: when Get reports the node missing, the invocation ends with no
\* lookup, no Update, a nil error and no requeue delay; any other Get error
\* is returned.
C8_GetErrors ==
    \A n \in Nodes :
        /\ hist[n].got = "NotFound" =>
              /\ pc[n] = "done"
              /\ hist[n].lookups = 0
              /\ hist[n].updates = 0
              /\ result[n] = [RequeueAfter |-> 0, err |-> "nil"]
        /\ hist[n].got = "ServerError" =>
              /\ pc[n] = "done"
              /\ result[n].err = "ServerError"

C8_Witness ==
    \E n \in Nodes :
        /\ pc[n] = "done"
        /\ hist[n].got = "NotFound"
        /\ ~store[n].exists

\* C9: a rejected Update ends the invocation after that single write
\* attempt, and Reconcile returns the write error with RequeueAfter = 1
\* minute.
C9_UpdateRejected ==
    \A n \in Nodes :
        /\ hist[n].updates <= 1
        /\ hist[n].updates = 1 => pc[n] = "done"
        /\ UpdateRejected(n) =>
              /\ result[n].err = hist[n].updateErr
              /\ result[n].RequeueAfter = 1

C9_Witness ==
    \E n \in Nodes :
        /\ pc[n] = "done"
        /\ hist[n].updates = 1
        /\ hist[n].updateErr = "Conflict"
        /\ result[n].err = "Conflict"

\* some managed key has a non-empty candidate that differs from the value
\* in the labels m
DiffNonEmpty(m, data) ==
    \/ (data.SiteName # "" /\ MapGet(m, ZoneKey) # data.SiteName)
    \/ (data.RackName # "" /\ MapGet(m, RackKey) # data.RackName)

\* C10: after a successful lookup an Update is attempted exactly when some
\* managed key has a non-empty candidate different from the node's value;
\* otherwise Reconcile returns a nil error with RequeueAfter = 6 hours.
C10_UpdateIffDiff ==
    \A n \in Nodes :
        hist[n].lookupErr = "nil" =>
            IF DiffNonEmpty(hist[n].read, deviceData[n])
            THEN pc[n] = "update" \/ hist[n].updates = 1
            ELSE /\ pc[n] = "done"
                 /\ hist[n].updates = 0
                 /\ result[n] = [RequeueAfter |-> 360, err |-> "nil"]

C10_Witness ==
    \E n \in Nodes :
        /\ pc[n] = "done"
        /\ hist[n].lookupErr = "nil"
        /\ deviceData[n].SiteName # ""
        /\ hist[n].updates = 0
        /\ result[n].RequeueAfter = 360

\* the candidate value of a managed key in a device record
Candidate(data, k) == IF k = ZoneKey THEN data.SiteName ELSE data.RackName

\* C11: after a successful lookup, each managed key of the node to submit
\* holds its own candidate when that candidate is non-empty and differs from
\* the value read, and is otherwise exactly as read (also when absent),
\* whatever the other key's value and candidate are.
C11_PerKeyDiff ==
    \A n \in Nodes :
        hist[n].lookupErr = "nil" =>
            /\ \A k \in ManagedKeys :
                 LET c == Candidate(deviceData[n], k)
                 IN  IF c # "" /\ MapGet(hist[n].read, k) # c
                     THEN /\ k \in DOMAIN node[n].labels.m
                          /\ node[n].labels.m[k] = c
                     ELSE SameEntry(node[n].labels.m, hist[n].read, k)
            /\ hist[n].updates = 1 => hist[n].sent = node[n].labels.m

C11_Witness ==
    \E n \in Nodes :
        /\ pc[n] = "done"
        /\ hist[n].updates = 1
        /\ deviceData[n] = [SiteName |-> "dc2", RackName |-> "r12"]
        /\ MapGet(hist[n].read, ZoneKey) = "dc2"
        /\ RackKey \notin DOMAIN hist[n].read
        /\ hist[n].sent[RackKey] = "r12"

\* C16: an Update submitted after another writer changed the node since the
\* Get is rejected, leaves the stored node (the other writer's change) as it
\* is, and ends the invocation with the write error after that one attempt.
C16_NoLostUpdate ==
    [][\A n \in Nodes :
         (UpdateStep(n) /\ store[n].rv # node[n].rv)
         => /\ store'[n] = store[n]
            /\ hist'[n].updateErr \notin {"none", "nil"}
            /\ hist'[n].updates = 1
            /\ result'[n].err = hist'[n].updateErr]_vars

C16_Witness ==
    \E n \in Nodes :
        /\ pc[n] = "done"
        /\ hist[n].updateErr = "Conflict"
        /\ store[n].rv # node[n].rv
        /\ ~SameEntry(store[n].labels, hist[n].read, OtherKey)
        /\ ~SameEntry(store[n].labels, hist[n].sent, OtherKey)

\* C18: an invocation makes exactly one Get, at most one lookup and at most
\* one Update, in that order: the lookup only after a successful Get of a
\* node that is not fully labelled, the Update only after a successful
\* lookup.
C18_OneOfEachInOrder ==
    \A n \in Nodes :
        /\ hist[n].gets = (IF pc[n] = "idle" THEN 0 ELSE 1)
        /\ hist[n].lookups <= 1
        /\ hist[n].updates <= 1
        /\ (pc[n] = "lookup" \/ hist[n].lookups = 1) =>
              (hist[n].got = "ok" /\ ~BothNonEmpty(hist[n].read))
        /\ pc[n] = "lookup" => (hist[n].lookups = 0 /\ hist[n].updates = 0)
        /\ (pc[n] = "update" \/ hist[n].updates = 1) =>
              (hist[n].lookups = 1 /\ hist[n].lookupErr = "nil")
        /\ pc[n] = "update" => hist[n].updates = 0

C18_Witness ==
    \E n \in Nodes :
        /\ pc[n] = "done"
        /\ hist[n].gets = 1
        /\ hist[n].lookups = 1
        /\ hist[n].updates = 1
        /\ hist[n].updateErr = "ServerError"

\* C19: an invocation whose Get did not report the node missing ends with a
\* requeue delay of 1 minute, 5 minutes, 1 hour, 6 hours or 12 hours, or
\* with an error; only the node-not-found outcome has neither.
C19_AlwaysRescheduled ==
    \A n \in Nodes :
        pc[n] = "done" =>
            /\ hist[n].got # "NotFound" =>
                  \/ result[n].RequeueAfter \in {1, 5, 60, 360, 720}
                  \/ result[n].err \notin {"nil", "none"}
            /\ (result[n].RequeueAfter = 0 /\ result[n].err = "nil")
                  => hist[n].got = "NotFound"

C19_Witness ==
    \E n \in Nodes :
        /\ pc[n] = "done"
        /\ hist[n].got = "ServerError"
        /\ store[n].exists
        /\ result[n] = [RequeueAfter |-> 0, err |-> "ServerError"]

\* the name contains a dot
HasDot(s) == \E i \in 1..Len(s) : s[i] = "."

\* what precedes the first dot of a name that has one
BeforeFirstDot(s) ==
    LET i == CHOOSE j \in 1..Len(s) :
                 s[j] = "." /\ \A l \in 1..(j - 1) : s[l] # "."
    IN  [l \in 1..(i - 1) |-> s[l]]

\* C13 as stated: the lookup key is what precedes the first dot whenever the
\* name has a dot, at any position, and the whole name otherwise.
C13_KeyBeforeAnyDot ==
    call.stage \in {"sent", "returned"} =>
        call.hostname = IF HasDot(call.nodeName)
                        THEN BeforeFirstDot(call.nodeName)
                        ELSE call.nodeName

\* C13 (amended): the lookup key is what precedes the first dot when the
\* name has a dot and does not start with one; a name that starts with a
\* dot, or has no dot, is used whole.
C13_KeyBeforeInnerDot ==
    call.stage \in {"sent", "returned"} =>
        call.hostname = IF HasDot(call.nodeName) /\ call.nodeName[1] # "."
                        THEN BeforeFirstDot(call.nodeName)
                        ELSE call.nodeName

C13_Witness ==
    /\ call.stage = "sent"
    /\ call.nodeName = <<".", "a", ".">>
    /\ call.hostname = <<".", "a", ".">>

\* C14 as stated: with a response received, the lookup fails on the status
\* exactly when the status is outside 200..299.
C14_FailsOutside2xx ==
    (call.stage = "returned" /\ call.resp.transport = "ok") =>
        (call.out.err = "status" <=> call.resp.status \notin 200..299)

\* C14 (amended): with a response received, the lookup fails on the status
\* exactly when the status is not 200; only a 200 response is decoded.
C14_FailsUnless200 ==
    (call.stage = "returned" /\ call.resp.transport = "ok") =>
        (call.out.err = "status" <=> call.resp.status # 200)

C14_Witness ==
    /\ call.stage = "returned"
    /\ call.resp.transport = "ok"
    /\ call.resp.status = 204
    /\ call.resp.decodes
    /\ Len(call.resp.results) > 0
    /\ call.out.err = "status"

\* the response was received with status 200 and its body decoded
Decoded(resp) == resp.transport = "ok" /\ resp.status = 200 /\ resp.decodes

\* C15: for a decoded envelope the lookup fails as not found exactly when
\* the result list is empty; otherwise it succeeds with, for site and rack
\* separately, the first result's name, or its display when the name is
\* empty, also when one or both come out empty.
C15_FirstResultNameOrDisplay ==
    (call.stage = "returned" /\ Decoded(call.resp)) =>
        IF Len(call.resp.results) = 0
        THEN call.out.err = "notfound"
        ELSE LET first == call.resp.results[1]
             IN  /\ call.out.err = "nil"
                 /\ call.out.data.SiteName =
                       (IF first.site.name # "" THEN first.site.name
                        ELSE first.site.display)
                 /\ call.out.data.RackName =
                       (IF first.rack.name # "" THEN first.rack.name
                        ELSE first.rack.display)

C15_Witness ==
    /\ call.stage = "returned"
    /\ Decoded(call.resp)
    /\ Len(call.resp.results) = 2
    /\ call.resp.results[1].site = [name |-> "", display |-> "b"]
    /\ call.resp.results[1].rack = [name |-> "", display |-> ""]
    /\ call.resp.results[2].site = [name |-> "a", display |-> ""]
    /\ call.out = [err |-> "nil", data |-> [SiteName |-> "b", RackName |-> ""]]

\* what the inventory currently answers for node n
Answer(n) == DeviceDataFrom(nautobot[Hostname(n)])

\* every non-empty field of the inventory's record for n is the value of
\* the stored node's label
InSync(n) ==
    \A k \in ManagedKeys :
        Candidate(Answer(n).data, k) # ""
        => MapGet(store[n].labels, k) = Candidate(Answer(n).data, k)

\* C12 as stated: once the inventory and the node are left alone, with the
\* node present and the inventory answering, the node's zone and rack labels
\* eventually equal the inventory's non-empty values and stay so, fully
\* labelled nodes included.
C12_InventoryPropagates ==
    <>[](\A n \in Nodes :
           (n \in cluster /\ store[n].exists /\ Answer(n).err = "nil")
           => InSync(n))

\* node n is present and the inventory answers a record with both fields
\* non-empty for it, and nothing but the reconciler can act any more
Settled(n) ==
    /\ budget = 0
    /\ n \in cluster
    /\ store[n].exists
    /\ Answer(n).err = "nil"
    /\ Answer(n).data.SiteName # ""
    /\ Answer(n).data.RackName # ""

\* the stored node holds zone and rack of the inventory's record
HoldsAnswer(n) ==
    /\ MapGet(store[n].labels, ZoneKey) = Answer(n).data.SiteName
    /\ MapGet(store[n].labels, RackKey) = Answer(n).data.RackName

\* C17 as stated: from the point where the node is present without a
\* non-empty value for some managed key, the inventory keeps answering one
\* record with both fields non-empty and nothing else interferes, the node
\* comes to hold zone and rack of that record and keeps them.
C17_Converges ==
    \A n \in Nodes :
        (Settled(n) /\ ~BothNonEmpty(store[n].labels))
            ~> [](HoldsAnswer(n))

\* the outcome of an invocation as a function of what it read and was
\* answered for its own node
OutcomeOf(h, d) ==
    IF h.got = "NotFound" THEN [RequeueAfter |-> 0, err |-> "nil"]
    ELSE IF h.got # "ok" THEN [RequeueAfter |-> 0, err |-> h.got]
    ELSE IF BothNonEmpty(h.read) THEN [RequeueAfter |-> 720, err |-> "nil"]
    ELSE IF h.lookupErr # "nil" THEN [RequeueAfter |-> 5, err |-> "nil"]
    ELSE IF ~DiffNonEmpty(h.read, d) THEN [RequeueAfter |-> 360, err |-> "nil"]
    ELSE IF h.updateErr = "nil" THEN [RequeueAfter |-> 60, err |-> "nil"]
    ELSE [RequeueAfter |-> 1, err |-> h.updateErr]

\* C20: a step of node a's Reconcile changes nothing of any other node (its
\* stored object, its invocation) and nothing shared (the inventory); what
\* it reads, is answered and writes is a's own, and its outcome is the one
\* given by those alone, however the two nodes' steps interleave.
C20_NodesIndependent ==
    [][\A a \in Nodes :
         ReconcileStep(a) =>
            /\ \A b \in Nodes \ {a} :
                 /\ store'[b] = store[b]
                 /\ pc'[b] = pc[b]
                 /\ node'[b] = node[b]
                 /\ deviceData'[b] = deviceData[b]
                 /\ result'[b] = result[b]
                 /\ hist'[b] = hist[b]
                 /\ lastWrite'[b] = lastWrite[b]
            /\ nautobot' = nautobot
            /\ (pc[a] = "idle" /\ hist'[a].got = "ok")
                  => hist'[a].read = store[a].labels
            /\ pc[a] = "lookup" =>
                  /\ hist'[a].lookupErr = Answer(a).err
                  /\ Answer(a).err = "nil" => deviceData'[a] = Answer(a).data
            /\ (UpdateStep(a) /\ hist'[a].updateErr = "nil")
                  => store'[a].labels = node[a].labels.m
            /\ pc'[a] = "done"
                  => result'[a] = OutcomeOf(hist'[a], deviceData'[a])]_vars

C20_Witness ==
    /\ \A n \in Nodes : pc[n] = "done" /\ hist[n].updateErr = "nil"
    /\ deviceData[NodeFQDN] # deviceData[NodeShort]
    /\ store[NodeFQDN].labels # store[NodeShort].labels
    /\ \A n \in Nodes : InSync(n)

\* C21: an invocation whose context was already cancelled when it started
\* aborts without side effects: it sends no inventory request and calls no
\* Update.
C21_CancelledAborts ==
    \A n \in Nodes :
        hist[n].ctx = "cancelled"
            => /\ hist[n].lookups = 0
               /\ hist[n].updates = 0

\* both variants have read the same labels of a node that is not fully
\* labelled and have been answered the same record
Compared(n) ==
    /\ hist[n].got = "ok"
    /\ hist[n].lookupErr = "nil"
    /\ simple[n].got = "ok"
    /\ simple[n].lookupErr = "nil"
    /\ simple[n].read = hist[n].read
    /\ simple[n].deviceData = deviceData[n]
    /\ ~BothNonEmpty(hist[n].read)

\* the invocation goes on to (or has made) its Update
Attempts(n) == pc[n] = "update" \/ hist[n].updates > 0
SimpleAttempts(n) == simple[n].pc = "update" \/ simple[n].updates > 0

\* managed keys whose field in the record is empty while the label is not
EmptyOverSet(m, data) ==
    { k \in ManagedKeys : Candidate(data, k) = "" /\ MapGet(m, k) # "" }

----------------------------------------------------------------------------

TypeOK ==
    /\ cluster \subseteq Nodes
    /\ budget \in Nat
    /\ \A n \in Nodes : ctx[n] \in {"live", "cancelled"}
    /\ \A n \in Nodes :
         /\ store[n].labels \in LabelMaps
         /\ pc[n] \in {"idle", "lookup", "update", "done"}
         /\ hist[n].lookups \in 0..1
         /\ hist[n].updates \in 0..1
    /\ \A h \in DeviceNames : nautobot[h] \in Responses

====
